---- MODULE Spec2Model ----
(***************************************************************************)
(* Mesh conferencing client (AbheyTiwari/RTC): the signalling and          *)
(* negotiation logic of the browser clients src/unnamed/part_000 and       *)
(* src/static/js/main.js, each client being one single-threaded event      *)
(* loop: inbound websocket messages, 100 ms timers and the completions of  *)
(* asynchronous RTCPeerConnection operations are the events.               *)
(***************************************************************************)
EXTENDS Integers, Sequences, FiniteSets, TLC

\* ------------------------------------------------------------------------
\* Bounds of the model
\* ------------------------------------------------------------------------
\* participants of the closed room (clients 1..MaxClients, all running the code)
MaxClients == 2
\* remote participants of the single client under an arbitrary environment
MaxPeers == 1
\* messages the arbitrary environment delivers to that client
MaxEnvMsgs == 3
\* candidates per peer the arbitrary environment delivers
MaxEnvCand == 2
\* getDisplayMedia calls of the client whose screen button is modelled
MaxScreens == 2

Max(a, b) == IF a > b THEN a ELSE b
Clients == 1..MaxClients
Self == 1
Peers == 2..(MaxPeers + 1)
\* the two peers of the two-peer environment
Pair == {Self + 1, Self + 2}
Ids == 1..Max(Max(MaxClients, MaxPeers + 1), Self + 2)

VARIABLES
    variant,    \* which client source runs: "part_000", "main" or "mai"
    mode,       \* "room": closed room with the relay; "env": one client, arbitrary messages
    cl,         \* cl[c]: the script state of client c
    inbox,      \* inbox[c]: messages the relay has sent to c, not yet dispatched
    relay,      \* ids the relay holds a connection for
    everJoined, \* the ids the relay has assigned, in the order of joining
    env         \* what the arbitrary environment has delivered so far: messages, candidates per peer

vars == <<variant, mode, cl, inbox, relay, everJoined, env>>

\* ------------------------------------------------------------------------
\* Values
\* ------------------------------------------------------------------------
NoDesc == <<>>
\* a session description: its type, its author, and the author's connection
Desc(type, from, ref) == <<type, from, ref[1], ref[2]>>
IsOffer(d) == d # NoDesc /\ d[1] = "offer"

Msg(type, from, pid, desc, cand, roster) ==
    [type |-> type, from |-> from, pid |-> pid, desc |-> desc, cand |-> cand,
     roster |-> roster, to |-> 0]
OutMsg(type, to, desc, cand) ==
    [type |-> type, from |-> 0, pid |-> 0, desc |-> desc, cand |-> cand,
     roster |-> {}, to |-> to]

\* an asynchronous function suspended at an await on an operation of a connection
Task(kind, arg, i) == [kind |-> kind, arg |-> arg, i |-> i]
\* a pending setTimeout callback
Timer(kind, ref) == [kind |-> kind, ref |-> ref]

SentKinds == {"offer", "answer", "ice-candidate"}

\* video tracks: the one of localStream, the one of the k-th screen capture
NoTrack == <<"none", 0>>
CameraTrack == <<"camera", 0>>
ScreenTrack(k) == <<"screen", k>>
\* no replaceTrack call was made yet
NoCall == <<>>

\* state of the script before init() ran.  pcs[p] holds every RTCPeerConnection
\* the script created for participant p, in creation order; peerConnections[p]
\* is the index in pcs[p] of the one stored under key p (0: no such key).
\* localVideo is the video track of localVideo.srcObject; screens counts the
\* getDisplayMedia calls, pendingDisplay holds those not yet settled (each a
\* suspended toggleScreenShare), liveScreens the screen tracks obtained and not
\* ended; lastReplace records the latest replaceTrack call: its newTrack, its
\* oldTrack and the connections of peerConnections that were connected then.
\* audioEnabled and cameraEnabled are the enabled flags of the two tracks of
\* localStream (a screen track's flag is never written: it stays true).
\* logged holds the functions whose catch block has caught and reported
\* (console.error) a rejection of the transport.
NewClient ==
    [localStream |-> FALSE,
     tracksStopped |-> FALSE,
     mediaError |-> FALSE,
     wsState |-> "none",
     participantId |-> 0,
     peerConnections |-> [p \in Ids |-> 0],
     pcs |-> [p \in Ids |-> <<>>],
     remoteParticipants |-> {},
     isAudioMuted |-> FALSE,
     isVideoMuted |-> FALSE,
     isScreenSharing |-> FALSE,
     audioEnabled |-> TRUE,
     cameraEnabled |-> TRUE,
     localVideo |-> NoTrack,
     screens |-> 0,
     pendingDisplay |-> {},
     liveScreens |-> {},
     lastReplace |-> NoCall,
     timers |-> <<>>,
     out |-> <<>>,
     sent |-> [k \in SentKinds |-> [p \in Ids |-> 0]],
     closes |-> 0,
     errors |-> 0,
     logged |-> {},
     listed |-> {},
     unloaded |-> FALSE]

\* ------------------------------------------------------------------------
\* The peer-transport primitive (RTCPeerConnection), as far as the scripts use it
\* ------------------------------------------------------------------------
\* chain: the operations invoked on the connection and not yet settled, each with
\* the suspended function that awaits it.  queued, added, drains record what
\* happened to the connection (candidates ever queued, candidates applied in
\* order, drain loops started over a non-empty buffer).  videoTrack is the track
\* of the connection's video sender (sender.track), set by addTrack.
NewPC(st, p) ==
    [peer |-> p,
     signalingState |-> "stable",
     curLocal |-> NoDesc, pendLocal |-> NoDesc,
     curRemote |-> NoDesc, pendRemote |-> NoDesc,
     pendingCandidates |-> <<>>,
     chain |-> <<>>,
     queued |-> {},
     added |-> <<>>,
     drains |-> 0,
     videoTrack |-> IF st.localStream THEN CameraTrack ELSE NoTrack]

\* pc.localDescription / pc.remoteDescription: the pending one if any, else the current one
localDescription(pc) == IF pc.pendLocal # NoDesc THEN pc.pendLocal ELSE pc.curLocal
remoteDescription(pc) == IF pc.pendRemote # NoDesc THEN pc.pendRemote ELSE pc.curRemote

IsClosed(pc) == pc.signalingState = "closed"

\* pc.close()
closePC(pc) == [pc EXCEPT !.signalingState = "closed"]

\* whether pc.createOffer() resolves
canCreateOffer(pc) == ~IsClosed(pc)
\* whether pc.createAnswer() resolves
canCreateAnswer(pc) == pc.signalingState = "have-remote-offer"

\* pc.setLocalDescription(d): <<resolved, pc afterwards>>
setLocalDescription(pc, d) ==
    IF IsOffer(d)
    THEN IF pc.signalingState \in {"stable", "have-local-offer"}
         THEN <<TRUE, [pc EXCEPT !.pendLocal = d, !.signalingState = "have-local-offer"]>>
         ELSE <<FALSE, pc>>
    ELSE IF pc.signalingState = "have-remote-offer"
         THEN <<TRUE, [pc EXCEPT !.curLocal = d, !.pendLocal = NoDesc,
                                 !.curRemote = pc.pendRemote, !.pendRemote = NoDesc,
                                 !.signalingState = "stable"]>>
         ELSE <<FALSE, pc>>

\* pc.setRemoteDescription(d): <<resolved, pc afterwards>>.  An offer applied in
\* have-local-offer is rejected by a transport without implicit rollback and rolls
\* the local offer back on one with it: rollback says which transport this is.
setRemoteDescription(pc, d, rollback) ==
    IF IsOffer(d)
    THEN IF pc.signalingState \in {"stable", "have-remote-offer"}
         THEN <<TRUE, [pc EXCEPT !.pendRemote = d, !.signalingState = "have-remote-offer"]>>
         ELSE IF pc.signalingState = "have-local-offer" /\ rollback
         THEN <<TRUE, [pc EXCEPT !.pendLocal = NoDesc, !.pendRemote = d,
                                 !.signalingState = "have-remote-offer"]>>
         ELSE <<FALSE, pc>>
    ELSE IF pc.signalingState = "have-local-offer"
         THEN <<TRUE, [pc EXCEPT !.curLocal = pc.pendLocal, !.pendLocal = NoDesc,
                                 !.curRemote = d, !.pendRemote = NoDesc,
                                 !.signalingState = "stable"]>>
         ELSE <<FALSE, pc>>

\* addIceCandidate as it would be if a closed connection still took candidates
addIceCandidateOnClosed(pc, cand) ==
    IF remoteDescription(pc) # NoDesc
    THEN <<TRUE, [pc EXCEPT !.added = Append(@, cand)]>>
    ELSE <<FALSE, pc>>

\* pc.addIceCandidate(cand): <<resolved, pc afterwards>>
addIceCandidate(pc, cand) ==
    IF ~IsClosed(pc) /\ remoteDescription(pc) # NoDesc
    THEN <<TRUE, [pc EXCEPT !.added = Append(@, cand)]>>
    ELSE <<FALSE, pc>>

\* ------------------------------------------------------------------------
\* Helpers on the script state st of one client
\* ------------------------------------------------------------------------
\* a connection is referred to by ref = <<participant, index in pcs[participant]>>
PCof(st, ref) == st.pcs[ref[1]][ref[2]]
SetPC(st, ref, pc) == [st EXCEPT !.pcs[ref[1]][ref[2]] = pc]
\* the connection stored in peerConnections under p (only used when there is one)
CurRef(st, p) == <<p, st.peerConnections[p]>>
Refs(st) == UNION {{<<p, g>> : g \in 1..Len(st.pcs[p])} : p \in Ids}

AddTask(st, ref, t) == [st EXCEPT !.pcs[ref[1]][ref[2]].chain = Append(@, t)]
AddTimer(st, t) == [st EXCEPT !.timers = Append(@, t)]

\* catch (error) { console.error(...) } in function fn
logError(st, fn) == [st EXCEPT !.logged = @ \cup {fn}]

\* sendMessage(message): sent only while the websocket is OPEN
sendMessage(st, m) ==
    IF st.wsState = "open"
    THEN [st EXCEPT !.out = Append(@, m), !.sent[m.type][m.to] = @ + 1]
    ELSE st

\* ------------------------------------------------------------------------
\* WebRTC core logic of the scripts
\* ------------------------------------------------------------------------
\* createPeerConnection(participantId): the existing connection, or a new one with
\* the local tracks added, stored in peerConnections.  mai.js always makes a new
\* one and stores it in peers, whatever was there.
createPeerConnection(st, p) ==
    IF st.peerConnections[p] # 0 /\ variant # "mai"
    THEN st
    ELSE [st EXCEPT !.pcs[p] = Append(@, NewPC(st, p)),
                    !.peerConnections[p] = Len(st.pcs[p]) + 1]

\* createOffer(participantId), up to its first await (pc.createOffer())
createOffer(st, p) ==
    LET s1 == createPeerConnection(st, p)
    IN AddTask(s1, CurRef(s1, p), Task("co.createOffer", NoDesc, 0))

\* createOffer resumed after an await, on the connection ref it holds
resumeCreateOffer(st, ref, t) ==
    LET pc == PCof(st, ref)
    IN IF t.kind = "co.createOffer"
       THEN IF canCreateOffer(pc)
            THEN AddTask(st, ref, Task("co.sld", Desc("offer", st.participantId, ref), 0))
            ELSE logError(st, "createOffer")
       ELSE LET r == setLocalDescription(pc, t.arg)
            IN IF r[1]
               THEN sendMessage(SetPC(st, ref, r[2]), OutMsg("offer", pc.peer, t.arg, <<>>))
               ELSE logError(st, "createOffer")

\* createOffer resumed by a rejection that still sends the offer
failCreateOfferSending(st, ref, t) ==
    sendMessage(logError(st, "createOffer"),
                OutMsg("offer", ref[1], Desc("offer", st.participantId, ref), <<>>))

\* createOffer resumed by a rejection of the operation it awaits, whatever made
\* the transport fail: the catch block reports it and createOffer ends
failCreateOffer(st, ref, t) == logError(st, "createOffer")

\* handleOffer(offer, participantId), up to its first await (setRemoteDescription)
handleOffer(st, offer, p) ==
    LET s1 == createPeerConnection(st, p)
    IN AddTask(s1, CurRef(s1, p), Task("ho.srd", offer, 0))

\* handleOffer resumed after an await
resumeHandleOffer(st, ref, t, rollback) ==
    LET pc == PCof(st, ref)
    IN CASE t.kind = "ho.srd" ->
                LET r == setRemoteDescription(pc, t.arg, rollback)
                IN IF r[1]
                   THEN AddTask(SetPC(st, ref, r[2]), ref, Task("ho.createAnswer", NoDesc, 0))
                   ELSE logError(st, "handleOffer")
         [] t.kind = "ho.createAnswer" ->
                IF canCreateAnswer(pc)
                THEN AddTask(st, ref, Task("ho.sld", Desc("answer", st.participantId, ref), 0))
                ELSE logError(st, "handleOffer")
         [] OTHER ->
                LET r == setLocalDescription(pc, t.arg)
                IN IF r[1]
                   THEN sendMessage(SetPC(st, ref, r[2]), OutMsg("answer", pc.peer, t.arg, <<>>))
                   ELSE logError(st, "handleOffer")

\* handleAnswer(answer, participantId), up to its await (setRemoteDescription)
handleAnswer(st, answer, p) ==
    IF st.peerConnections[p] # 0
    THEN AddTask(st, CurRef(st, p), Task("ha.srd", answer, 0))
    ELSE st

\* handleAnswer resumed without applying the answer
resumeHandleAnswerDropped(st, ref, t) == st

\* handleAnswer resumed, closing and forgetting the session when the answer is rejected
resumeHandleAnswerClosing(st, ref, t) ==
    LET r == setRemoteDescription(PCof(st, ref), t.arg, FALSE)
    IN IF r[1]
       THEN SetPC(st, ref, r[2])
       ELSE [SetPC(st, ref, closePC(PCof(st, ref))) EXCEPT !.peerConnections[ref[1]] = 0]

\* handleAnswer resumed, closing every session when the answer is rejected
resumeHandleAnswerClosingAll(st, ref, t) ==
    LET r == setRemoteDescription(PCof(st, ref), t.arg, FALSE)
    IN IF r[1]
       THEN SetPC(st, ref, r[2])
       ELSE [st EXCEPT !.pcs = [p \in Ids |-> [g \in DOMAIN st.pcs[p] |->
                                   closePC(st.pcs[p][g])]]]

\* handleAnswer resumed: the rejection, if any, is caught and logged
resumeHandleAnswer(st, ref, t) ==
    LET r == setRemoteDescription(PCof(st, ref), t.arg, FALSE)
    IN IF r[1] THEN SetPC(st, ref, r[2]) ELSE logError(st, "handleAnswer")

\* handleIceCandidate(candidate, participantId), up to its await.  part_000 queues
\* a candidate that is early and starts a 100 ms timer; main.js drops it.
handleIceCandidate(st, cand, p) ==
    IF st.peerConnections[p] = 0
    THEN st
    ELSE LET ref == CurRef(st, p)
             pc == PCof(st, ref)
         IN IF remoteDescription(pc) # NoDesc \/ variant = "mai"
            THEN AddTask(st, ref, Task("ic.add", <<cand>>, 0))
            ELSE IF variant = "main"
            THEN st
            ELSE AddTimer(SetPC(st, ref,
                              [pc EXCEPT !.pendingCandidates = Append(@, cand),
                                         !.queued = @ \cup {cand}]),
                          Timer("drain", ref))

\* handleIceCandidate resumed: the rejection, if any, is caught and logged
resumeHandleIceCandidate(st, ref, t) ==
    LET r == addIceCandidate(PCof(st, ref), t.arg[1])
    IN IF r[1] THEN SetPC(st, ref, r[2]) ELSE logError(st, "handleIceCandidate")

\* one turn of the drain loop `for (const c of pc.pendingCandidates) await add(c)`
\* over the array arr it started on, at index k; after the last element the
\* property pc.pendingCandidates is replaced by a new empty array
drainFrom(st, ref, arr, k) ==
    IF k <= Len(arr)
    THEN AddTask(st, ref, Task("drain.add", arr, k))
    ELSE SetPC(st, ref, [PCof(st, ref) EXCEPT !.pendingCandidates = <<>>])

\* the callback of the 100 ms timer handleIceCandidate starts, up to its first await
drainTimer(st, ref) ==
    LET pc == PCof(st, ref)
    IN IF remoteDescription(pc) # NoDesc
       THEN drainFrom(SetPC(st, ref, [pc EXCEPT !.drains =
                                         IF pc.pendingCandidates # <<>> THEN @ + 1 ELSE @]),
                      ref, pc.pendingCandidates, 1)
       ELSE st

\* the drain loop resumed after addIceCandidate settled (a rejection is logged)
resumeDrain(st, ref, t) ==
    LET r == addIceCandidate(PCof(st, ref), t.arg[t.i])
        s1 == IF r[1] THEN SetPC(st, ref, r[2]) ELSE logError(st, "handleIceCandidate")
    IN drainFrom(s1, ref, t.arg, t.i + 1)

\* handleUserLeft that closes the connection but keeps it in peerConnections
handleUserLeftKeepsEntry(st, p) ==
    LET s1 == IF st.peerConnections[p] # 0
              THEN [SetPC(st, CurRef(st, p), closePC(PCof(st, CurRef(st, p))))
                       EXCEPT !.closes = @ + 1]
              ELSE st
    IN [s1 EXCEPT !.remoteParticipants = @ \ {p}]

\* handleUserLeft without the `if (peerConnections[participantId])` guard: close()
\* on undefined throws and the handler ends there
handleUserLeftUnguarded(st, p) ==
    IF st.peerConnections[p] # 0
    THEN [SetPC(st, CurRef(st, p), closePC(PCof(st, CurRef(st, p))))
             EXCEPT !.closes = @ + 1, !.peerConnections[p] = 0,
                    !.remoteParticipants = @ \ {p}]
    ELSE [st EXCEPT !.errors = @ + 1]

\* handleUserLeft that leaves the roster entry of the participant in place
handleUserLeftKeepsRoster(st, p) ==
    IF st.peerConnections[p] # 0
    THEN [SetPC(st, CurRef(st, p), closePC(PCof(st, CurRef(st, p))))
             EXCEPT !.closes = @ + 1, !.peerConnections[p] = 0]
    ELSE st

\* the roll number the messages give for participant p
RollOf(p) == env.roll[p]

\* addParticipantToListUI(username, roll_number, participantId, isYou) of part_000
\* and main.js: the element is keyed by the roll number and not added when one
\* with that key exists.  listed is the set of keys in the displayed list (the
\* list of mai.js is not modelled).
addParticipantToListUI(st, p) ==
    IF variant = "mai" THEN st ELSE [st EXCEPT !.listed = @ \cup {RollOf(p)}]

\* handleUserLeft(participantId): the element keyed by the roll number of the
\* participant that left is removed from the displayed list
handleUserLeft(st, p) ==
    LET s1 == IF st.peerConnections[p] # 0
              THEN [SetPC(st, CurRef(st, p), closePC(PCof(st, CurRef(st, p))))
                       EXCEPT !.closes = @ + 1, !.peerConnections[p] = 0]
              ELSE st
    IN IF p \in s1.remoteParticipants
       THEN [s1 EXCEPT !.remoteParticipants = @ \ {p}, !.listed = @ \ {RollOf(p)}]
       ELSE s1

\* the forEach of updateParticipantsList over the entries with id >= p (key order).
\* main.js also creates an offer for every other participant it has no connection
\* for; part_000 does not ("wait for user-joined message").
RECURSIVE updateFrom(_, _, _)
updateFrom(st, roster, p) ==
    IF p \notin Ids
    THEN st
    ELSE IF p \notin roster
    THEN updateFrom(st, roster, p + 1)
    ELSE IF p = st.participantId
    THEN updateFrom(addParticipantToListUI(st, p), roster, p + 1)
    ELSE LET s1 == [addParticipantToListUI(st, p) EXCEPT !.remoteParticipants = @ \cup {p}]
             s2 == IF variant = "main" /\ s1.peerConnections[p] = 0
                   THEN createOffer(s1, p)
                   ELSE s1
         IN updateFrom(s2, roster, p + 1)

\* updateParticipantsList as static/js/main.js has it, offering to every entry
RECURSIVE updateFromOffering(_, _, _)
updateFromOffering(st, roster, p) ==
    IF p \notin Ids
    THEN st
    ELSE IF p \notin roster \/ p = st.participantId
    THEN updateFromOffering(st, roster, p + 1)
    ELSE LET s1 == [st EXCEPT !.remoteParticipants = @ \cup {p}]
             s2 == IF s1.peerConnections[p] = 0 THEN createOffer(s1, p) ELSE s1
         IN updateFromOffering(s2, roster, p + 1)

updateParticipantsListOffering(st, roster) == updateFromOffering(st, roster, 1)

updateParticipantsList(st, roster) == updateFrom([st EXCEPT !.listed = {}], roster, 1)

\* case 'user-joined': part_000 delays createOffer by a 100 ms timer, main.js calls
\* it; handleUserJoined of mai.js calls it too and has no test for the own id
userJoined(st, p) ==
    IF p = st.participantId /\ variant # "mai"
    THEN st
    ELSE LET s1 == [addParticipantToListUI(st, p) EXCEPT !.remoteParticipants = @ \cup {p}]
         IN IF variant \in {"main", "mai"}
            THEN createOffer(s1, p)
            ELSE AddTimer(s1, Timer("offer", <<p, 0>>))

\* the default case as it would be if an unknown type ended the session
unknownMessageFatal(st, m) == [st EXCEPT !.wsState = "closed", !.errors = @ + 1]

\* default: console.warn and break
unknownMessage(st, m) == st

\* handleWebSocketMessage(event), up to the first await of the handler it calls
handleWebSocketMessage(st, m) ==
    CASE m.type = "connected" /\ variant # "mai" ->
            updateParticipantsList([st EXCEPT !.participantId = m.pid], m.roster)
      [] m.type = "user-joined" -> userJoined(st, m.pid)
      [] m.type = "offer" -> handleOffer(st, m.desc, m.from)
      [] m.type = "answer" -> handleAnswer(st, m.desc, m.from)
      [] m.type = "ice-candidate" -> handleIceCandidate(st, m.cand, m.from)
      [] m.type = "user-left" -> handleUserLeft(st, m.pid)
      [] OTHER -> unknownMessage(st, m)

\* leaveMeeting(): close every connection in peerConnections (none is deleted),
\* close the websocket, stop the local tracks
leaveMeeting(st) ==
    [st EXCEPT !.pcs = [p \in Ids |-> [g \in DOMAIN st.pcs[p] |->
                           IF g = st.peerConnections[p]
                           THEN closePC(st.pcs[p][g])
                           ELSE st.pcs[p][g]]],
               !.closes = @ + Cardinality({p \in Ids : st.peerConnections[p] # 0}),
               !.wsState = "closed",
               !.tracksStopped = st.localStream]

\* ------------------------------------------------------------------------
\* Media controls of part_000
\* ------------------------------------------------------------------------
\* track.enabled
Enabled(st, track) == IF track = CameraTrack THEN st.cameraEnabled ELSE TRUE

\* toggleMic()
toggleMic(st) ==
    IF ~st.localStream
    THEN st
    ELSE [st EXCEPT !.isAudioMuted = ~st.isAudioMuted, !.audioEnabled = st.isAudioMuted]

\* toggleCam()
toggleCam(st) ==
    IF ~st.localStream
    THEN st
    ELSE [st EXCEPT !.isVideoMuted = ~st.isVideoMuted, !.cameraEnabled = st.isVideoMuted]

\* the connection has completed a negotiation and is not in the middle of one
IsConnected(pc) ==
    pc.signalingState = "stable" /\ pc.curLocal # NoDesc /\ pc.curRemote # NoDesc

\* the connections of peerConnections that are connected
ConnectedRefs(st) ==
    {CurRef(st, p) : p \in {q \in Ids : st.peerConnections[q] # 0
                                         /\ IsConnected(PCof(st, CurRef(st, q)))}}

\* the loop of replaceTrack over the values of peerConnections with key >= p:
\* sender.replaceTrack(newTrack) is invoked on the connection whose video sender
\* has oldTrack; it is an operation of the connection, it is not awaited, and
\* sender.track changes when it settles
RECURSIVE replaceFrom(_, _, _, _)
replaceFrom(st, newTrack, oldTrack, p) ==
    IF p \notin Ids
    THEN st
    ELSE IF st.peerConnections[p] # 0 /\ PCof(st, CurRef(st, p)).videoTrack = oldTrack
    THEN replaceFrom(AddTask(st, CurRef(st, p), Task("rt", newTrack, 0)),
                     newTrack, oldTrack, p + 1)
    ELSE replaceFrom(st, newTrack, oldTrack, p + 1)

\* replaceTrack(newTrack, oldTrack)
replaceTrack(st, newTrack, oldTrack) ==
    [replaceFrom(st, newTrack, oldTrack, 1)
        EXCEPT !.lastReplace = <<newTrack, oldTrack, ConnectedRefs(st)>>]

\* sender.replaceTrack settling with a renegotiation of the session
resumeReplaceTrackRenegotiating(st, ref, t) ==
    IF IsClosed(PCof(st, ref))
    THEN st
    ELSE AddTask(SetPC(st, ref, [PCof(st, ref) EXCEPT !.videoTrack = t.arg]),
                 ref, Task("co.createOffer", NoDesc, 0))

\* sender.replaceTrack settles: rejected on a closed connection (nobody looks),
\* else the sender has the new track
resumeReplaceTrack(st, ref, t) ==
    IF IsClosed(PCof(st, ref))
    THEN st
    ELSE SetPC(st, ref, [PCof(st, ref) EXCEPT !.videoTrack = t.arg])

\* stopScreenShare(): back to the camera track, from whatever localVideo shows
stopScreenShare(st) ==
    [replaceTrack(st, CameraTrack, st.localVideo)
        EXCEPT !.localVideo = CameraTrack, !.isScreenSharing = FALSE]

\* toggleScreenShare(), up to its await (getDisplayMedia) if it has one
toggleScreenShare(st) ==
    IF st.isScreenSharing
    THEN stopScreenShare(st)
    ELSE [st EXCEPT !.screens = @ + 1, !.pendingDisplay = @ \cup {st.screens + 1}]

\* toggleScreenShare resumed: getDisplayMedia number k resolved with a screen
\* track (ok) or was rejected
resumeToggleScreenShare(st, k, ok) ==
    IF ok
    THEN [replaceTrack(st, ScreenTrack(k), CameraTrack)
             EXCEPT !.localVideo = ScreenTrack(k), !.isScreenSharing = TRUE,
                    !.liveScreens = @ \cup {k}]
    ELSE [st EXCEPT !.isScreenSharing = FALSE]

\* ------------------------------------------------------------------------
\* The signalling relay (room-scoped; it is not part of src/): it sends `connected`
\* with the roster snapshot to a newcomer, `user-joined` to everyone, forwards
\* offer/answer/ice-candidate to their addressee with from_id set, and sends
\* `user-left` to the others when a connection ends
\* ------------------------------------------------------------------------
Forwarded(out, c, d) ==
    LET sel == SelectSeq(out, LAMBDA m : m.to = d)
    IN [j \in 1..Len(sel) |-> [sel[j] EXCEPT !.from = c, !.to = 0]]

RelayForward(inb, c, out) ==
    [d \in Ids |-> IF d \in relay THEN inb[d] \o Forwarded(out, c, d) ELSE inb[d]]

RelayJoin(inb, c) ==
    [d \in Ids |->
        IF d = c
        THEN <<Msg("connected", 0, c, NoDesc, <<>>, relay \cup {c}),
               Msg("user-joined", 0, c, NoDesc, <<>>, {})>>
        ELSE IF d \in relay
        THEN Append(inb[d], Msg("user-joined", 0, c, NoDesc, <<>>, {}))
        ELSE inb[d]]

RelayLeave(inb, c) ==
    [d \in Ids |->
        IF d = c
        THEN <<>>
        ELSE IF d \in relay
        THEN Append(inb[d], Msg("user-left", 0, c, NoDesc, <<>>, {}))
        ELSE inb[d]]

\* ------------------------------------------------------------------------
\* Events of one client's event loop
\* ------------------------------------------------------------------------
\* the script state st replaces cl[c]; what it sent goes through the relay
Commit(c, st, inb) ==
    /\ cl' = [cl EXCEPT ![c] = [st EXCEPT !.out = <<>>]]
    /\ inbox' = RelayForward(inb, c, st.out)

Live(c) == ~cl[c].unloaded

\* the operations of one connection settle in the order they were invoked (its
\* operations chain): the function awaiting the oldest one is resumed
Settling(c, p, g, kinds) ==
    /\ Live(c)
    /\ g \in 1..Len(cl[c].pcs[p])
    /\ cl[c].pcs[p][g].chain # <<>>
    /\ Head(cl[c].pcs[p][g].chain).kind \in kinds

Settled(c, p, g) == [cl[c] EXCEPT !.pcs[p][g].chain = Tail(@)]
Oldest(c, p, g) == Head(cl[c].pcs[p][g].chain)
MaxGen(c, p) == Len(cl[c].pcs[p])

\* init() as it would be if a media failure did not keep the websocket from opening
StartOpening(c) ==
    /\ cl[c].wsState = "none"
    /\ ~cl[c].mediaError
    /\ \E ok \in BOOLEAN :
          cl' = [cl EXCEPT ![c] =
                    IF ok
                    THEN [@ EXCEPT !.localStream = TRUE, !.localVideo = CameraTrack,
                                   !.wsState = "connecting"]
                    ELSE [@ EXCEPT !.mediaError = TRUE, !.wsState = "connecting"]]
    /\ UNCHANGED <<variant, mode, inbox, relay, everJoined, env>>

\* init(): startLocalMedia, then setupWebSocket; a media failure shows the overlay
Start(c) ==
    /\ cl[c].wsState = "none"
    /\ ~cl[c].mediaError
    /\ \E ok \in BOOLEAN :
          cl' = [cl EXCEPT ![c] =
                    IF ok
                    THEN [@ EXCEPT !.localStream = TRUE, !.localVideo = CameraTrack,
                                   !.wsState = "connecting"]
                    ELSE [@ EXCEPT !.mediaError = TRUE]]
    /\ UNCHANGED <<variant, mode, inbox, relay, everJoined, env>>

\* the relay accepts the websocket of c and announces c
Join(c) ==
    /\ mode = "room"
    /\ cl[c].wsState = "connecting"
    /\ cl' = [cl EXCEPT ![c].wsState = "open"]
    /\ inbox' = RelayJoin(inbox, c)
    /\ relay' = relay \cup {c}
    /\ everJoined' = Append(everJoined, c)
    /\ UNCHANGED <<variant, mode, env>>

\* ws.onmessage
Receive(c) ==
    /\ Live(c)
    /\ cl[c].wsState = "open"
    /\ inbox[c] # <<>>
    /\ Commit(c, handleWebSocketMessage(cl[c], Head(inbox[c])),
              [inbox EXCEPT ![c] = Tail(@)])
    /\ UNCHANGED <<variant, mode, relay, everJoined, env>>

\* the 100 ms timer of case 'user-joined' fires (timers of equal delay fire in order)
OfferTimer(c) ==
    /\ Live(c)
    /\ cl[c].timers # <<>>
    /\ Head(cl[c].timers).kind = "offer"
    /\ Commit(c, createOffer([cl[c] EXCEPT !.timers = Tail(@)], Head(cl[c].timers).ref[1]),
              inbox)
    /\ UNCHANGED <<variant, mode, relay, everJoined, env>>

\* the 100 ms timer of handleIceCandidate fires
DrainTimer(c) ==
    /\ Live(c)
    /\ cl[c].timers # <<>>
    /\ Head(cl[c].timers).kind = "drain"
    /\ Commit(c, drainTimer([cl[c] EXCEPT !.timers = Tail(@)], Head(cl[c].timers).ref),
              inbox)
    /\ UNCHANGED <<variant, mode, relay, everJoined, env>>

\* the operation createOffer awaits on connection g of participant p settles
CreateOfferAt(c, p, g) ==
    /\ Settling(c, p, g, {"co.createOffer", "co.sld"})
    /\ Commit(c, resumeCreateOffer(Settled(c, p, g), <<p, g>>, Oldest(c, p, g)), inbox)
    /\ UNCHANGED <<variant, mode, relay, everJoined, env>>

CreateOfferStep(c) == \E p \in Ids : \E g \in 1..MaxGen(c, p) : CreateOfferAt(c, p, g)

\* the transport fails to produce or to set the offer for a reason of its own
CreateOfferFailsAt(c, p, g) ==
    /\ Settling(c, p, g, {"co.createOffer", "co.sld"})
    /\ Commit(c, failCreateOffer(Settled(c, p, g), <<p, g>>, Oldest(c, p, g)), inbox)
    /\ UNCHANGED <<variant, mode, relay, everJoined, env>>

CreateOfferFails(c) == \E p \in Ids : \E g \in 1..MaxGen(c, p) : CreateOfferFailsAt(c, p, g)

\* the transports a step of handleOffer can tell apart: with or without implicit
\* rollback, when an offer is applied to a connection in have-local-offer
Transports(pc) ==
    IF pc.signalingState = "have-local-offer" /\ pc.chain # <<>> /\ Head(pc.chain).kind = "ho.srd"
    THEN BOOLEAN
    ELSE {FALSE}

\* the operation handleOffer awaits on connection g of participant p settles
HandleOfferAt(c, p, g) ==
    \E rollback \in Transports(cl[c].pcs[p][g]) :
        /\ Settling(c, p, g, {"ho.srd", "ho.createAnswer", "ho.sld"})
        /\ Commit(c, resumeHandleOffer(Settled(c, p, g), <<p, g>>, Oldest(c, p, g), rollback),
                  inbox)
        /\ UNCHANGED <<variant, mode, relay, everJoined, env>>

HandleOfferStep(c) == \E p \in Ids : \E g \in 1..MaxGen(c, p) : HandleOfferAt(c, p, g)

\* the setRemoteDescription handleAnswer awaits on connection g of p settles
HandleAnswerAt(c, p, g) ==
    /\ Settling(c, p, g, {"ha.srd"})
    /\ Commit(c, resumeHandleAnswer(Settled(c, p, g), <<p, g>>, Oldest(c, p, g)), inbox)
    /\ UNCHANGED <<variant, mode, relay, everJoined, env>>

HandleAnswerStep(c) == \E p \in Ids : \E g \in 1..MaxGen(c, p) : HandleAnswerAt(c, p, g)

\* the addIceCandidate handleIceCandidate awaits on connection g of p settles
HandleIceCandidateAt(c, p, g) ==
    /\ Settling(c, p, g, {"ic.add"})
    /\ Commit(c, resumeHandleIceCandidate(Settled(c, p, g), <<p, g>>, Oldest(c, p, g)), inbox)
    /\ UNCHANGED <<variant, mode, relay, everJoined, env>>

HandleIceCandidateStep(c) ==
    \E p \in Ids : \E g \in 1..MaxGen(c, p) : HandleIceCandidateAt(c, p, g)

\* the addIceCandidate the drain loop awaits on connection g of p settles
DrainAt(c, p, g) ==
    /\ Settling(c, p, g, {"drain.add"})
    /\ Commit(c, resumeDrain(Settled(c, p, g), <<p, g>>, Oldest(c, p, g)), inbox)
    /\ UNCHANGED <<variant, mode, relay, everJoined, env>>

DrainStep(c) == \E p \in Ids : \E g \in 1..MaxGen(c, p) : DrainAt(c, p, g)

\* sender.replaceTrack settles
ReplaceTrackStep(c) ==
    \E p \in Ids : \E g \in 1..MaxGen(c, p) :
        /\ Settling(c, p, g, {"rt"})
        /\ Commit(c, resumeReplaceTrack(Settled(c, p, g), <<p, g>>, Oldest(c, p, g)), inbox)
        /\ UNCHANGED <<variant, mode, relay, everJoined, env>>

\* the screen button is clicked (its listener is installed once init() has the
\* local media)
ToggleScreenShare(c) ==
    /\ Live(c)
    /\ cl[c].localStream
    /\ cl[c].isScreenSharing \/ cl[c].screens < MaxScreens
    /\ Commit(c, toggleScreenShare(cl[c]), inbox)
    /\ UNCHANGED <<variant, mode, relay, everJoined, env>>

\* a pending getDisplayMedia settles: the user picked a screen or dismissed the prompt
DisplayMediaStep(c) ==
    \E k \in cl[c].pendingDisplay, ok \in BOOLEAN :
        /\ Live(c)
        /\ Commit(c, resumeToggleScreenShare([cl[c] EXCEPT !.pendingDisplay = @ \ {k}], k, ok),
                  inbox)
        /\ UNCHANGED <<variant, mode, relay, everJoined, env>>

\* the user ends a screen capture from the browser: screenTrack.onended
ScreenTrackEnded(c) ==
    \E k \in cl[c].liveScreens :
        /\ Live(c)
        /\ Commit(c, stopScreenShare([cl[c] EXCEPT !.liveScreens = @ \ {k}]), inbox)
        /\ UNCHANGED <<variant, mode, relay, everJoined, env>>

\* the leave button, at any time after init() has installed its listener:
\* leaveMeeting() runs and the page starts to navigate away; until the page is
\* gone the button can be clicked again
Leave(c) ==
    /\ Live(c)
    /\ mode = "env"
    /\ cl[c].wsState # "none"
    /\ env.msgs < MaxEnvMsgs
    /\ cl' = [cl EXCEPT ![c] = leaveMeeting(@)]
    /\ env' = [env EXCEPT !.msgs = @ + 1]
    /\ UNCHANGED <<variant, mode, inbox, relay, everJoined>>

\* ws.onclose: the alert, then the page starts to navigate away
wsOnClose(st) == [st EXCEPT !.wsState = "closed"]

\* the signalling channel disconnects: ws.onclose fires
Disconnect(c) ==
    /\ Live(c)
    /\ mode = "env"
    /\ cl[c].wsState \in {"connecting", "open"}
    /\ cl' = [cl EXCEPT ![c] = wsOnClose(@)]
    /\ UNCHANGED <<variant, mode, inbox, relay, everJoined, env>>

\* the page is gone once the navigation leaveMeeting started has completed
Unloaded == [NewClient EXCEPT !.wsState = "closed", !.unloaded = TRUE]

\* the navigation completes: the script, its timers and pending callbacks end
Unload(c) ==
    /\ Live(c)
    /\ cl[c].wsState = "closed"
    /\ cl' = [cl EXCEPT ![c] = Unloaded]
    /\ UNCHANGED <<variant, mode, inbox, relay, everJoined, env>>

\* a participant of the room leaves: leaveMeeting() closes its websocket, the
\* relay tells the others, and nothing the page still does before it is gone
\* reaches them (sendMessage sends only on an OPEN websocket)
LeaveRoom(c) ==
    /\ Live(c)
    /\ mode = "room"
    /\ cl[c].wsState = "open"
    /\ cl' = [cl EXCEPT ![c] = Unloaded]
    /\ inbox' = RelayLeave(inbox, c)
    /\ relay' = relay \ {c}
    /\ UNCHANGED <<variant, mode, everJoined, env>>

\* ------------------------------------------------------------------------
\* The closed room: every participant runs the script named by variant
\* ------------------------------------------------------------------------
NoEnv == [msgs |-> 0, cand |-> [p \in Ids |-> 0], unknown |-> 0, roll |-> [p \in Ids |-> p]]

InitRoom(v) ==
    /\ variant = v
    /\ mode = "room"
    /\ cl = [c \in Ids |-> NewClient]
    /\ inbox = [c \in Ids |-> <<>>]
    /\ relay = {}
    /\ everJoined = <<>>
    /\ env = NoEnv

Init == InitRoom("part_000")

\* The room exchanges descriptions only: no peer emits candidates here (they touch
\* neither the descriptions nor the roster); SpecEnv covers candidate handling.
Next ==
    \E c \in Clients :
        \/ Start(c)
        \/ Join(c)
        \/ Receive(c)
        \/ OfferTimer(c)
        \/ CreateOfferStep(c)
        \/ HandleOfferStep(c)
        \/ HandleAnswerStep(c)
        \/ LeaveRoom(c)

Spec == Init /\ [][Next]_vars

\* every queued event of a client's event loop is eventually run, and every
\* transport operation eventually settles; nobody is obliged to leave
Fairness ==
    \A c \in Clients :
        /\ WF_vars(Receive(c))
        /\ WF_vars(OfferTimer(c))
        /\ WF_vars(CreateOfferStep(c))
        /\ WF_vars(HandleOfferStep(c))
        /\ WF_vars(HandleAnswerStep(c))

FairSpec == Spec /\ Fairness

\* the same room with every participant running static/js/main.js, which has no
\* timers: `user-joined` and `connected` call createOffer at once
InitMain == InitRoom("main")

NextMain ==
    \E c \in Clients :
        \/ Start(c)
        \/ Join(c)
        \/ Receive(c)
        \/ CreateOfferStep(c)
        \/ HandleOfferStep(c)
        \/ HandleAnswerStep(c)
        \/ LeaveRoom(c)

SpecMain == InitMain /\ [][NextMain]_vars

\* ------------------------------------------------------------------------
\* One client (Self) under an arbitrary environment: the relay and the peers may
\* send it any sequence of well-formed messages
\* ------------------------------------------------------------------------
InitEnv ==
    /\ variant \in {"part_000", "main"}
    /\ mode = "env"
    /\ cl = [c \in Ids |-> NewClient]
    /\ inbox = [c \in Ids |-> <<>>]
    /\ relay = {}
    /\ everJoined = <<>>
    /\ env = NoEnv

\* the message m is dispatched to ws.onmessage of Self
Dispatch(m) ==
    /\ Live(Self)
    /\ cl[Self].wsState = "open"
    /\ env.msgs < MaxEnvMsgs
    /\ Commit(Self, handleWebSocketMessage(cl[Self], m), inbox)

Counted == [env EXCEPT !.msgs = @ + 1]

\* the websocket opens and the relay's first message, `connected`, arrives
EnvConnected ==
    \E others \in SUBSET Peers :
        /\ mode = "env"
        /\ cl[Self].wsState = "connecting"
        /\ Commit(Self,
                  handleWebSocketMessage([cl[Self] EXCEPT !.wsState = "open"],
                      Msg("connected", 0, Self, NoDesc, <<>>, {Self} \cup others)),
                  inbox)
        /\ UNCHANGED <<variant, mode, relay, everJoined, env>>

UserJoinedFrom(p) ==
    /\ Dispatch(Msg("user-joined", 0, p, NoDesc, <<>>, {}))
    /\ env' = Counted
    /\ UNCHANGED <<variant, mode, relay, everJoined>>

UserLeftFrom(p) ==
    /\ Dispatch(Msg("user-left", 0, p, NoDesc, <<>>, {}))
    /\ env' = Counted
    /\ UNCHANGED <<variant, mode, relay, everJoined>>

OfferFrom(p) ==
    /\ Dispatch(Msg("offer", p, 0, Desc("offer", p, <<Self, 1>>), <<>>, {}))
    /\ env' = Counted
    /\ UNCHANGED <<variant, mode, relay, everJoined>>

AnswerFrom(p) ==
    /\ Dispatch(Msg("answer", p, 0, Desc("answer", p, <<Self, 1>>), <<>>, {}))
    /\ env' = Counted
    /\ UNCHANGED <<variant, mode, relay, everJoined>>

\* the candidates of a peer arrive in the order it sent them: 1, 2, ...
CandidateFrom(p) ==
    /\ env.cand[p] < MaxEnvCand
    /\ Dispatch(Msg("ice-candidate", p, 0, NoDesc, <<p, 1, env.cand[p] + 1>>, {}))
    /\ env' = [Counted EXCEPT !.cand[p] = @ + 1]
    /\ UNCHANGED <<variant, mode, relay, everJoined>>

\* a message of a type the script has no case for
UnknownFrom(p) ==
    /\ Dispatch(Msg("unknown", p, 0, NoDesc, <<>>, {}))
    /\ env' = [Counted EXCEPT !.unknown = @ + 1]
    /\ UNCHANGED <<variant, mode, relay, everJoined>>

EnvUnknown == \E p \in Peers : UnknownFrom(p)
EnvUserJoined == \E p \in Peers \cup {Self} : UserJoinedFrom(p)
EnvUserLeft == \E p \in Peers : UserLeftFrom(p)
EnvOffer == \E p \in Peers : OfferFrom(p)
EnvAnswer == \E p \in Peers : AnswerFrom(p)
EnvCandidate == \E p \in Peers : CandidateFrom(p)

NextEnv ==
    \/ Start(Self)
    \/ EnvConnected
    \/ EnvUserJoined
    \/ EnvUserLeft
    \/ EnvOffer
    \/ EnvAnswer
    \/ EnvCandidate
    \/ OfferTimer(Self)
    \/ DrainTimer(Self)
    \/ CreateOfferStep(Self)
    \/ HandleOfferStep(Self)
    \/ HandleAnswerStep(Self)
    \/ HandleIceCandidateStep(Self)
    \/ DrainStep(Self)

SpecEnv == InitEnv /\ [][NextEnv]_vars

\* ------------------------------------------------------------------------
\* One part_000 client whose peers offer and leave while its user shares the screen
\* ------------------------------------------------------------------------
InitMedia == InitEnv /\ variant = "part_000"

NextMedia ==
    \/ Start(Self)
    \/ EnvConnected
    \/ EnvOffer
    \/ EnvUserLeft
    \/ HandleOfferStep(Self)
    \/ ToggleScreenShare(Self)
    \/ DisplayMediaStep(Self)
    \/ ScreenTrackEnded(Self)
    \/ ReplaceTrackStep(Self)

SpecMedia == InitMedia /\ [][NextMedia]_vars

\* one part_000 client under the arbitrary environment of SpecEnv
SpecPart == InitMedia /\ [][NextEnv]_vars

\* ------------------------------------------------------------------------
\* One part_000 client whose peers join, offer and leave, on a transport that
\* may fail to produce or set an offer
\* ------------------------------------------------------------------------
NextOffer ==
    \/ Start(Self)
    \/ EnvConnected
    \/ EnvUserJoined
    \/ EnvUserLeft
    \/ EnvOffer
    \/ OfferTimer(Self)
    \/ CreateOfferStep(Self)
    \/ CreateOfferFails(Self)
    \/ HandleOfferStep(Self)

SpecOffer == InitMedia /\ [][NextOffer]_vars

\* ------------------------------------------------------------------------
\* One part_000 client and two peers that join and send it offers, answers and
\* candidates in any order
\* ------------------------------------------------------------------------
NextPair ==
    \/ Start(Self)
    \/ EnvConnected
    \/ \E p \in Pair : UserJoinedFrom(p)
    \/ \E p \in Pair : OfferFrom(p)
    \/ \E p \in Pair : AnswerFrom(p)
    \/ \E p \in Pair : CandidateFrom(p)
    \/ OfferTimer(Self)
    \/ DrainTimer(Self)
    \/ CreateOfferStep(Self)
    \/ HandleOfferStep(Self)
    \/ HandleAnswerStep(Self)
    \/ HandleIceCandidateStep(Self)
    \/ DrainStep(Self)

SpecPair == InitMedia /\ [][NextPair]_vars

\* ------------------------------------------------------------------------
\* One part_000 client whose user works the media controls while a peer
\* negotiates with it and sends candidates
\* ------------------------------------------------------------------------
\* a click on one of the media buttons of Self, counted with the messages as
\* one of the events the outside delivers
Click(st) ==
    /\ Live(Self)
    /\ cl[Self].localStream
    /\ env.msgs < MaxEnvMsgs
    /\ Commit(Self, st, inbox)
    /\ env' = Counted
    /\ UNCHANGED <<variant, mode, relay, everJoined>>

ToggleMic == Click(toggleMic(cl[Self]))
ToggleCam == Click(toggleCam(cl[Self]))
ScreenButton ==
    /\ cl[Self].isScreenSharing \/ cl[Self].screens < MaxScreens
    /\ Click(toggleScreenShare(cl[Self]))

NextControls ==
    \/ Start(Self)
    \/ EnvConnected
    \/ EnvOffer
    \/ EnvCandidate
    \/ HandleOfferStep(Self)
    \/ HandleIceCandidateStep(Self)
    \/ DrainTimer(Self)
    \/ DrainStep(Self)
    \/ ToggleMic
    \/ ToggleCam
    \/ ScreenButton
    \/ DisplayMediaStep(Self)
    \/ ScreenTrackEnded(Self)
    \/ ReplaceTrackStep(Self)

SpecControls == InitMedia /\ [][NextControls]_vars

\* ------------------------------------------------------------------------
\* One part_000 client whose user shares the screen and leaves the meeting
\* while peers offer
\* ------------------------------------------------------------------------
NextLeave ==
    \/ Start(Self)
    \/ EnvConnected
    \/ EnvOffer
    \/ EnvUserLeft
    \/ HandleOfferStep(Self)
    \/ ScreenButton
    \/ DisplayMediaStep(Self)
    \/ ScreenTrackEnded(Self)
    \/ ReplaceTrackStep(Self)
    \/ Leave(Self)
    \/ Unload(Self)

SpecLeave == InitMedia /\ [][NextLeave]_vars

\* ------------------------------------------------------------------------
\* One client running static/js/mai.js under an arbitrary environment.  The
\* script opens its websocket when it is loaded and asks for the camera and
\* microphone in ws.onopen.
\* ------------------------------------------------------------------------
InitMai ==
    /\ variant = "mai"
    /\ mode = "env"
    /\ cl = [c \in Ids |-> IF c = Self THEN [NewClient EXCEPT !.wsState = "connecting"]
                                      ELSE NewClient]
    /\ inbox = [c \in Ids |-> <<>>]
    /\ relay = {}
    /\ everJoined = <<>>
    /\ env = NoEnv

\* ws.onopen: initializeLocalMedia() is called and waits for getUserMedia
OpenMai ==
    /\ variant = "mai"
    /\ cl[Self].wsState = "connecting"
    /\ cl' = [cl EXCEPT ![Self].wsState = "open"]
    /\ UNCHANGED <<variant, mode, inbox, relay, everJoined, env>>

\* getUserMedia settles in initializeLocalMedia: the stream is kept, or the
\* failure is reported and the script goes on without local media
MediaMai ==
    /\ variant = "mai"
    /\ Live(Self)
    /\ cl[Self].wsState # "connecting"
    /\ ~cl[Self].localStream
    /\ ~cl[Self].mediaError
    /\ \E ok \in BOOLEAN :
          cl' = [cl EXCEPT ![Self] =
                    IF ok
                    THEN [@ EXCEPT !.localStream = TRUE, !.localVideo = CameraTrack]
                    ELSE [@ EXCEPT !.mediaError = TRUE]]
    /\ UNCHANGED <<variant, mode, inbox, relay, everJoined, env>>

NextMai ==
    \/ OpenMai
    \/ MediaMai
    \/ EnvUserJoined
    \/ EnvUserLeft
    \/ EnvOffer
    \/ EnvAnswer
    \/ EnvCandidate
    \/ CreateOfferStep(Self)
    \/ HandleOfferStep(Self)
    \/ HandleAnswerStep(Self)
    \/ HandleIceCandidateStep(Self)

SpecMai == InitMai /\ [][NextMai]_vars

\* ------------------------------------------------------------------------
\* One part_000 client in a room whose participants may share roll numbers:
\* two peers join and leave in any order
\* ------------------------------------------------------------------------
Rolls == {Self, Self + 1}

InitRoster ==
    /\ variant = "part_000"
    /\ mode = "env"
    /\ cl = [c \in Ids |-> NewClient]
    /\ inbox = [c \in Ids |-> <<>>]
    /\ relay = {}
    /\ everJoined = <<>>
    /\ \E r \in [Ids -> Rolls] : env = [NoEnv EXCEPT !.roll = r]

NextRoster ==
    \/ Start(Self)
    \/ EnvConnected
    \/ \E p \in Pair \cup {Self} : UserJoinedFrom(p)
    \/ \E p \in Pair : UserLeftFrom(p)
    \/ OfferTimer(Self)
    \/ CreateOfferStep(Self)

SpecRoster == InitRoster /\ [][NextRoster]_vars

\* ------------------------------------------------------------------------
\* One part_000 client whose user leaves the meeting while peers join, offer
\* and send candidates and timers are pending
\* ------------------------------------------------------------------------
NextGone ==
    \/ Start(Self)
    \/ EnvConnected
    \/ EnvUserJoined
    \/ EnvOffer
    \/ EnvCandidate
    \/ OfferTimer(Self)
    \/ DrainTimer(Self)
    \/ CreateOfferStep(Self)
    \/ HandleOfferStep(Self)
    \/ HandleIceCandidateStep(Self)
    \/ DrainStep(Self)
    \/ Leave(Self)
    \/ Unload(Self)

SpecGone == InitMedia /\ [][NextGone]_vars

\* ------------------------------------------------------------------------
\* One client, running any of the three scripts, that also receives messages
\* of unknown types
\* ------------------------------------------------------------------------
InitAny == InitEnv \/ InitMai

NextAny ==
    \/ Start(Self)
    \/ EnvConnected
    \/ OpenMai
    \/ MediaMai
    \/ EnvUserJoined
    \/ EnvOffer
    \/ EnvUnknown
    \/ OfferTimer(Self)
    \/ CreateOfferStep(Self)
    \/ HandleOfferStep(Self)

SpecAny == InitAny /\ [][NextAny]_vars

\* ------------------------------------------------------------------------
\* One client (either script) whose signalling channel may disconnect while
\* peers join and offer
\* ------------------------------------------------------------------------
NextClose ==
    \/ Start(Self)
    \/ EnvConnected
    \/ EnvUserJoined
    \/ EnvOffer
    \/ OfferTimer(Self)
    \/ CreateOfferStep(Self)
    \/ HandleOfferStep(Self)
    \/ Disconnect(Self)
    \/ Unload(Self)

SpecClose == InitEnv /\ [][NextClose]_vars

\* ------------------------------------------------------------------------
\* Properties
\* ------------------------------------------------------------------------
HasCur(c, p) == cl[c].peerConnections[p] # 0
CurPC(c, p) == cl[c].pcs[p][cl[c].peerConnections[p]]
\* c's session for p has its local and its remote description set
Connected(c, p) ==
    /\ HasCur(c, p)
    /\ CurPC(c, p).signalingState = "stable"
    /\ CurPC(c, p).curLocal # NoDesc
    /\ CurPC(c, p).curRemote # NoDesc

KindsOf(pc) == {pc.chain[k].kind : k \in 1..Len(pc.chain)}
\* the awaits client c is suspended at, the timers it has pending, the messages it has not seen
PendingKinds(c) == UNION {KindsOf(PCof(cl[c], r)) : r \in Refs(cl[c])}
TimerKinds(c) == {cl[c].timers[k].kind : k \in 1..Len(cl[c].timers)}
InboxTypes(c) == {inbox[c][k].type : k \in 1..Len(inbox[c])}

Offered(a, b) == cl[a].sent["offer"][b] >= 1
Answered(a, b) == cl[a].sent["answer"][b] >= 1

\* c has processed every join message sent to it, its createOffer timers have
\* fired and the createOffer calls they made have run to their end
JoinsSettled(c) ==
    /\ c \in relay
    /\ InboxTypes(c) \cap {"connected", "user-joined"} = {}
    /\ "offer" \notin TimerKinds(c)
    /\ PendingKinds(c) \cap {"co.createOffer", "co.sld"} = {}

\* C1: in a room of part_000 clients, for every pair of connected participants
\* that have both processed all join messages and whose createOffer timers have
\* fired and run, exactly one of the two has sent an offer to the other.
C1_ExactlyOneOfferer ==
    \A a \in Clients, b \in Clients :
        (a # b /\ JoinsSettled(a) /\ JoinsSettled(b)) => (Offered(a, b) # Offered(b, a))

C1_Witness ==
    \E a \in Clients, b \in Clients :
        a # b /\ JoinsSettled(a) /\ JoinsSettled(b) /\ Offered(a, b) /\ ~Offered(b, a)

Position(c) == CHOOSE k \in 1..Len(everJoined) : everJoined[k] = c
HasJoined(c) == \E k \in 1..Len(everJoined) : everJoined[k] = c
\* a was in the room when b joined
Earlier(a, b) == HasJoined(a) /\ HasJoined(b) /\ Position(a) < Position(b)
HasLeft(c) == HasJoined(c) /\ c \notin relay

Negotiated(a, b) ==
    /\ Connected(a, b)
    /\ Connected(b, a)
    /\ cl[a].sent["offer"][b] = 1
    /\ cl[b].sent["answer"][a] = 1

\* a sent b at most one offer and b sent a at most one answer
AtMostOneExchange ==
    \A a \in Clients, b \in Clients :
        Earlier(a, b) => cl[a].sent["offer"][b] <= 1 /\ cl[b].sent["answer"][a] <= 1

AllNegotiated ==
    \A a \in Clients, b \in Clients :
        Earlier(a, b) => (Negotiated(a, b) \/ HasLeft(a) \/ HasLeft(b))

\* C4: when b joins a room of part_000 clients in which a is present, a sends at
\* most one offer to b and b at most one answer to a, and unless one of them
\* leaves, eventually a has sent exactly one offer, b exactly one answer, and both
\* sessions have their local and remote descriptions set.
C4_JoinScenario == []AtMostOneExchange /\ []<>AllNegotiated

C4_Witness ==
    \E a \in Clients, b \in Clients : Earlier(a, b) /\ Negotiated(a, b)

\* nothing is left for c to run: no message, no timer, no suspended function
Quiet(c) == inbox[c] = <<>> /\ cl[c].timers = <<>> /\ PendingKinds(c) = {}

\* one completed negotiation between a and b in which a made the offer: both
\* connections are stable on a's offer and b's answer to it
Session(a, b) ==
    /\ HasCur(a, b) /\ HasCur(b, a)
    /\ CurPC(a, b).signalingState = "stable"
    /\ CurPC(b, a).signalingState = "stable"
    /\ IsOffer(CurPC(a, b).curLocal)
    /\ CurPC(b, a).curRemote = CurPC(a, b).curLocal
    /\ CurPC(b, a).curLocal = CurPC(a, b).curRemote

\* C2: in a room of main.js clients, when a and b have each sent the other an
\* offer (glare) and everything in flight has been processed, exactly one
\* negotiation between them has completed.
C2_GlareConverges ==
    \A a \in Clients, b \in Clients :
        (/\ a # b /\ a \in relay /\ b \in relay
         /\ Offered(a, b) /\ Offered(b, a)
         /\ Quiet(a) /\ Quiet(b))
        => (Session(a, b) # Session(b, a))

\* client c handles the `connected` message
ConnectedStep(c) ==
    /\ inbox[c] # <<>>
    /\ Head(inbox[c]).type = "connected"
    /\ cl[c].participantId = 0
    /\ cl'[c].participantId # 0

\* C3: handling `connected` creates no peer connection and sends no offer.
C3_ConnectedOnlyRoster ==
    [][\A c \in Clients :
          ConnectedStep(c) =>
              /\ cl'[c].pcs = cl[c].pcs
              /\ cl'[c].peerConnections = cl[c].peerConnections
              /\ cl'[c].sent = cl[c].sent]_vars

Range(q) == {q[k] : k \in 1..Len(q)}
NoDup(q) == \A j \in 1..Len(q), k \in 1..Len(q) : q[j] = q[k] => j = k
SelfRefs == Refs(cl[Self])
SelfPC(ref) == PCof(cl[Self], ref)
DrainTimerPending(ref) == \E k \in 1..Len(cl[Self].timers) : cl[Self].timers[k] = Timer("drain", ref)
DrainRunning(ref) == "drain.add" \in KindsOf(SelfPC(ref))

\* C5: a candidate queued while the remote description was unset is applied once
\* the description is set: when the session is open, has its remote description
\* and has no drain timer or drain loop left to run, every candidate it ever
\* queued has been applied.
C5_QueuedEventuallyApplied ==
    \A ref \in SelfRefs :
        (/\ ~IsClosed(SelfPC(ref))
         /\ remoteDescription(SelfPC(ref)) # NoDesc
         /\ ~DrainTimerPending(ref)
         /\ ~DrainRunning(ref))
        => SelfPC(ref).queued \subseteq Range(SelfPC(ref).added)

\* C6: no candidate is applied to a session more than once and the buffer of a
\* session is drained at most once.
C6_AppliedOnce ==
    \A ref \in SelfRefs : NoDup(SelfPC(ref).added) /\ SelfPC(ref).drains <= 1

\* C7: candidates are applied in arrival order: no applied candidate arrived
\* after one that was queued and still waits to be applied.
C7_ArrivalOrder ==
    \A ref \in SelfRefs :
        \A x \in SelfPC(ref).queued \ Range(SelfPC(ref).added) :
            \A y \in Range(SelfPC(ref).added) : y[3] < x[3]

\* C8: after handleUserLeft(p), whatever state p's session was in, every
\* connection made for p is closed and neither peerConnections nor
\* remoteParticipants has an entry for p.
C8_UserLeftRemoves ==
    [][\A p \in Peers :
          UserLeftFrom(p) =>
              /\ cl'[Self].peerConnections[p] = 0
              /\ p \notin cl'[Self].remoteParticipants
              /\ \A g \in 1..Len(cl'[Self].pcs[p]) : IsClosed(cl'[Self].pcs[p][g])]_vars

\* a session closed by handleUserLeft while a negotiation step was in flight
C8_Witness ==
    \E p \in Peers :
        /\ cl[Self].closes >= 1
        /\ ~HasCur(Self, p)
        /\ p \notin cl[Self].remoteParticipants
        /\ \E g \in 1..Len(cl[Self].pcs[p]) :
              IsClosed(cl[Self].pcs[p][g]) /\ cl[Self].pcs[p][g].chain # <<>>

\* C9: handleUserLeft is idempotent: applied a second time for the same id, or
\* for an id with no session and no roster entry, it changes nothing (no close,
\* no error, peerConnections and remoteParticipants as they were).
C9_UserLeftIdempotent ==
    \A p \in Ids :
        LET s1 == handleUserLeft(cl[Self], p)
        IN /\ handleUserLeft(s1, p) = s1
           /\ (~HasCur(Self, p) /\ p \notin cl[Self].remoteParticipants) => s1 = cl[Self]

\* p's session has been closed and removed by a first user-left, and the
\* environment may send another
C9_Witness ==
    \E p \in Peers :
        /\ cl[Self].closes = 1
        /\ Len(cl[Self].pcs[p]) = 1
        /\ IsClosed(cl[Self].pcs[p][1])
        /\ ~HasCur(Self, p)
        /\ p \notin cl[Self].remoteParticipants
        /\ env.msgs < MaxEnvMsgs

\* a replacement of the sender's track invoked on the connection has not settled
ReplacePending(ref) == "rt" \in KindsOf(SelfPC(ref))

\* C10: after replaceTrack(newTrack, oldTrack) has returned and the replacements
\* it started have taken effect, every session of peerConnections that was
\* connected at the call and still is sends newTrack as its video track.
C10_ReplaceTrackReachesAll ==
    cl[Self].lastReplace # NoCall =>
        \A ref \in cl[Self].lastReplace[3] :
            (/\ ref = CurRef(cl[Self], ref[1])
             /\ Connected(Self, ref[1])
             /\ ~ReplacePending(ref))
            => SelfPC(ref).videoTrack = cl[Self].lastReplace[1]

\* the sessions of peerConnections (every one the script holds, connected or not)
\* on which no replacement of the sender's track is in flight
SettledSessions == {ref \in SelfRefs : ref = CurRef(cl[Self], ref[1]) /\ ~ReplacePending(ref)}
\* the active video track: the screen track shown locally while isScreenSharing,
\* the camera track otherwise
ActiveTrack == IF cl[Self].isScreenSharing THEN cl[Self].localVideo ELSE CameraTrack

\* C11: outside a replaceTrack call (and with no sender replacement in flight),
\* every session of peerConnections sends the active video track: the screen
\* track while isScreenSharing is true, the camera track otherwise; sessions
\* created while a screen share is active included.
C11_SameActiveTrack ==
    \A ref \in SettledSessions : SelfPC(ref).videoTrack = ActiveTrack

\* stopScreenShare was the last function to change what is shared
StoppedSharing ==
    cl[Self].lastReplace # NoCall /\ cl[Self].lastReplace[1] = CameraTrack

\* C12: after stopScreenShare has run (from the button or from the `ended` event
\* of a screen track; also after two overlapping toggleScreenShare calls),
\* isScreenSharing is false and every session sends the camera track.
C12_StopRestoresCamera ==
    StoppedSharing =>
        /\ ~cl[Self].isScreenSharing
        /\ \A ref \in SettledSessions : SelfPC(ref).videoTrack = CameraTrack

\* a step of one of the media controls: a click on the microphone, camera or
\* screen button, toggleScreenShare resuming after getDisplayMedia, stopScreenShare
\* run by a screen track's `ended` event, a sender replacement taking effect
ControlStep ==
    \/ ToggleMic
    \/ ToggleCam
    \/ ScreenButton
    \/ DisplayMediaStep(Self)
    \/ ScreenTrackEnded(Self)
    \/ ReplaceTrackStep(Self)

\* what a connection holds for the negotiation: its state, its descriptions, its
\* candidate buffer, the candidates applied, the negotiation steps it has pending
Negotiation(pc) ==
    <<pc.signalingState, pc.curLocal, pc.pendLocal, pc.curRemote, pc.pendRemote,
      pc.pendingCandidates, pc.added, SelectSeq(pc.chain, LAMBDA t : t.kind # "rt")>>

\* C13: toggleMic, toggleCam, toggleScreenShare and stopScreenShare send no offer,
\* answer or ice-candidate and leave every session's descriptions and candidate
\* buffer unchanged: no session is created, removed or renegotiated by them.
C13_ControlsFrame ==
    [][ControlStep =>
          /\ cl'[Self].sent = cl[Self].sent
          /\ cl'[Self].peerConnections = cl[Self].peerConnections
          /\ cl'[Self].timers = cl[Self].timers
          /\ \A p \in Ids :
                /\ Len(cl'[Self].pcs[p]) = Len(cl[Self].pcs[p])
                /\ \A g \in 1..Len(cl[Self].pcs[p]) :
                      Negotiation(cl'[Self].pcs[p][g]) = Negotiation(cl[Self].pcs[p][g])]_vars

\* the screen track has replaced the camera track on a connected session that
\* holds a buffered candidate
C13_Witness ==
    \E ref \in SelfRefs :
        /\ IsConnected(SelfPC(ref))
        /\ SelfPC(ref).pendingCandidates # <<>>
        /\ SelfPC(ref).videoTrack = ScreenTrack(1)
        /\ cl[Self].isScreenSharing

\* C14: the video track sent on every session is disabled while isVideoMuted is
\* true and enabled while it is false, also during a screen share, and toggleCam
\* stops no capture track.
C14_CamMuteDisablesSent ==
    /\ ~cl[Self].tracksStopped
    /\ \A ref \in SettledSessions :
          Enabled(cl[Self], SelfPC(ref).videoTrack) = ~cl[Self].isVideoMuted

\* the connection is as it was but for the operation that has just settled
OnlySettled(p, g) ==
    cl'[Self].pcs[p][g] = [cl[Self].pcs[p][g] EXCEPT !.chain = Tail(@)]

\* C15: an answer from p processed when p's session is not awaiting one is
\* ignored: with no session for p nothing changes at all; with a session whose
\* state is not have-local-offer when the answer is applied, the session (its
\* descriptions, candidate buffer, state) stays as it was and is kept, and no
\* error escapes handleAnswer.
C15_StrayAnswerIgnored ==
    [][\A p \in Peers :
          /\ (AnswerFrom(p) /\ ~HasCur(Self, p)) => cl'[Self] = cl[Self]
          /\ \A g \in 1..Len(cl[Self].pcs[p]) :
                (HandleAnswerAt(Self, p, g)
                   /\ cl[Self].pcs[p][g].signalingState # "have-local-offer")
                => /\ OnlySettled(p, g)
                   /\ cl'[Self].peerConnections = cl[Self].peerConnections
                   /\ cl'[Self].errors = cl[Self].errors
                   /\ cl'[Self].sent = cl[Self].sent]_vars

\* an answer was rejected for a session that has completed its negotiation since
C15_Witness ==
    /\ variant = "part_000"
    /\ "handleAnswer" \in cl[Self].logged
    /\ \E p \in Peers : Connected(Self, p)

\* the session has no local and no remote description
Idle(pc) ==
    /\ pc.signalingState = "stable"
    /\ localDescription(pc) = NoDesc
    /\ remoteDescription(pc) = NoDesc

\* C16: in part_000 createOffer acts only on a session in Idle: when the session
\* it reaches already has a local or a remote description, it sets no new local
\* description and sends no offer.
C16_CreateOfferOnlyFromIdle ==
    [][\A p \in Peers : \A g \in 1..Len(cl[Self].pcs[p]) :
          (variant = "part_000" /\ CreateOfferAt(Self, p, g) /\ ~Idle(cl[Self].pcs[p][g]))
          => /\ localDescription(cl'[Self].pcs[p][g]) = localDescription(cl[Self].pcs[p][g])
             /\ cl'[Self].sent = cl[Self].sent]_vars

\* the operation at the head of the connection's chain is rejected by the
\* transport, whichever transport it is
Rejects(pc) ==
    LET t == Head(pc.chain)
    IN CASE t.kind = "co.createOffer" -> ~canCreateOffer(pc)
         [] t.kind \in {"co.sld", "ho.sld"} -> ~setLocalDescription(pc, t.arg)[1]
         [] t.kind = "ho.srd" -> ~setRemoteDescription(pc, t.arg, TRUE)[1]
         [] t.kind = "ho.createAnswer" -> ~canCreateAnswer(pc)
         [] t.kind = "ha.srd" -> ~setRemoteDescription(pc, t.arg, FALSE)[1]
         [] t.kind = "ic.add" -> ~addIceCandidate(pc, t.arg[1])[1]
         [] OTHER -> FALSE

\* createOffer, handleOffer, handleAnswer or handleIceCandidate resumes on
\* connection g of p
NegotiationAt(p, g) ==
    \/ CreateOfferAt(Self, p, g)
    \/ HandleOfferAt(Self, p, g)
    \/ HandleAnswerAt(Self, p, g)
    \/ HandleIceCandidateAt(Self, p, g)

\* C17: when the transport rejects a description or candidate in createOffer,
\* handleOffer, handleAnswer or handleIceCandidate for p, p's session is closed
\* and removed from peerConnections.
C17_RejectionClosesSession ==
    [][\A p \in Peers : \A g \in 1..Len(cl[Self].pcs[p]) :
          (/\ variant = "part_000"
           /\ cl[Self].peerConnections[p] = g
           /\ NegotiationAt(p, g)
           /\ Rejects(cl[Self].pcs[p][g]))
          => /\ IsClosed(cl'[Self].pcs[p][g])
             /\ cl'[Self].peerConnections[p] = 0]_vars

\* an `offer`, `answer` or `ice-candidate` of p is processed: the message is
\* dispatched, or a handler it started resumes on a connection of p
ProcessingFrom(p) ==
    \/ OfferFrom(p)
    \/ AnswerFrom(p)
    \/ CandidateFrom(p)
    \/ \E g \in 1..Len(cl[Self].pcs[p]) :
          \/ HandleOfferAt(Self, p, g)
          \/ HandleAnswerAt(Self, p, g)
          \/ HandleIceCandidateAt(Self, p, g)
          \/ DrainAt(Self, p, g)

\* C18: processing an `offer`, `answer` or `ice-candidate` of peer P, accepted or
\* rejected, leaves the sessions (state, descriptions, buffered candidates) and
\* the roster entry of every other peer Q as they were, no error escapes and
\* the signalling channel stays open.
C18_OtherPeersUntouched ==
    [][\A p \in Pair :
          ProcessingFrom(p)
          => /\ \A q \in Pair \ {p} :
                   /\ cl'[Self].pcs[q] = cl[Self].pcs[q]
                   /\ cl'[Self].peerConnections[q] = cl[Self].peerConnections[q]
                   /\ (q \in cl'[Self].remoteParticipants) = (q \in cl[Self].remoteParticipants)
             /\ cl'[Self].errors = cl[Self].errors
             /\ cl'[Self].wsState = cl[Self].wsState]_vars

\* an answer of one peer has been rejected while another peer's session is
\* connected and still is
C18_Witness ==
    /\ "handleAnswer" \in cl[Self].logged
    /\ \E p \in Pair : \E q \in Pair \ {p} :
          /\ HasCur(Self, p)
          /\ Connected(Self, q)
          /\ q \in cl[Self].remoteParticipants

\* createOffer fails on connection g of p: the transport rejects the operation
\* it awaits, in the state the connection is in or for a reason of its own
CreateOfferFailure(p, g) ==
    \/ CreateOfferFailsAt(Self, p, g)
    \/ CreateOfferAt(Self, p, g) /\ Rejects(cl[Self].pcs[p][g])

\* C19: if the transport fails to produce or set the offer inside createOffer,
\* no offer is sent, no error leaves createOffer and the session is as it was:
\* no local description is set, an Idle session is still Idle.
C19_CreateOfferFailure ==
    [][\A p \in Peers : \A g \in 1..Len(cl[Self].pcs[p]) :
          CreateOfferFailure(p, g)
          => /\ OnlySettled(p, g)
             /\ cl'[Self].sent = cl[Self].sent
             /\ cl'[Self].errors = cl[Self].errors
             /\ cl'[Self].peerConnections = cl[Self].peerConnections]_vars

\* createOffer has failed and the session it was for is Idle, nothing pending
C19_Witness ==
    /\ "createOffer" \in cl[Self].logged
    /\ \E p \in Peers :
          /\ HasCur(Self, p)
          /\ Idle(CurPC(Self, p))
          /\ CurPC(Self, p).chain = <<>>
          /\ cl[Self].sent["offer"][p] = 0

\* C20: leaveMeeting, called in any state, ends with every peer connection
\* closed, the signalling channel closed and every local track stopped (the
\* tracks of localStream and the screen tracks that are live), and raises no error.
C20_LeaveReleasesAll ==
    [][Leave(Self)
       => /\ \A p \in Ids : \A g \in 1..Len(cl'[Self].pcs[p]) : IsClosed(cl'[Self].pcs[p][g])
          /\ cl'[Self].wsState = "closed"
          /\ cl[Self].localStream => cl'[Self].tracksStopped
          /\ cl'[Self].liveScreens = {}
          /\ cl'[Self].errors = cl[Self].errors]_vars

\* every connection the client has created is closed and every local track is stopped
Released(st) ==
    /\ \A p \in Ids : \A g \in 1..Len(st.pcs[p]) : IsClosed(st.pcs[p][g])
    /\ st.localStream => st.tracksStopped
    /\ st.liveScreens = {}

\* C21: after the signalling channel has disconnected, every peer connection is
\* closed and every local track is stopped by the time the page is left for the
\* pre-room state.
C21_DisconnectReleases ==
    [][Unload(Self) => Released(cl[Self])]_vars

\* C22: in part_000, if local media acquisition failed at startup, the signalling
\* channel is not opened, no peer connection exists and no offer or answer has
\* been sent.
C22_MediaFailureStopsEntry ==
    (variant = "part_000" /\ cl[Self].mediaError)
    => /\ cl[Self].wsState = "none"
       /\ \A p \in Ids : cl[Self].pcs[p] = <<>> /\ cl[Self].peerConnections[p] = 0
       /\ \A p \in Ids : cl[Self].sent["offer"][p] = 0 /\ cl[Self].sent["answer"][p] = 0
       /\ cl[Self].out = <<>>

\* local media acquisition has failed
C22_Witness == variant = "part_000" /\ cl[Self].mediaError /\ ~cl[Self].localStream

\* c has processed every message the relay has sent it so far
CaughtUp(c) ==
    /\ c \in relay
    /\ Live(c)
    /\ cl[c].participantId # 0
    /\ inbox[c] = <<>>

\* C23: in part_000, at a client that has processed every relay message sent so
\* far, the roster (remoteParticipants and self) is exactly the set of the
\* participants that are connected now: none missing, none that has left.
C23_RosterMatchesRoom ==
    \A c \in Clients :
        CaughtUp(c) => cl[c].remoteParticipants \cup {cl[c].participantId} = relay

\* a client has caught up after another participant joined and left
C23_Witness ==
    \E c \in Clients :
        /\ CaughtUp(c)
        /\ \E k \in 1..Len(everJoined) : everJoined[k] \notin relay
        /\ cl[c].remoteParticipants = {}

\* C24: no client has a peer connection keyed by its own participant id or has
\* sent an offer addressed to itself, although the relay sends `user-joined`
\* to the joiner too.
C24_NoSessionWithSelf ==
    /\ cl[Self].pcs[Self] = <<>>
    /\ cl[Self].peerConnections[Self] = 0
    /\ cl[Self].sent["offer"][Self] = 0

\* C25: a message of an unknown type is dropped: handling it changes no peer
\* connection, no roster entry and no media state, sends nothing, and the
\* websocket stays open for the messages that follow.
C25_UnknownDropped ==
    [][\A p \in Peers : UnknownFrom(p) => cl'[Self] = cl[Self] /\ inbox' = inbox]_vars

\* an unknown message has been handled by a client that has a peer connection
\* and goes on receiving
C25_Witness ==
    /\ env.unknown > 0
    /\ cl[Self].wsState = "open"
    /\ \E p \in Peers : HasCur(Self, p)

\* the candidate cand of p is kept by the client: buffered on a connection of
\* p, or handed to one and waiting to be applied
Retains(st, p, cand) ==
    \E g \in 1..Len(st.pcs[p]) :
        \/ \E k \in 1..Len(st.pcs[p][g].pendingCandidates) :
              st.pcs[p][g].pendingCandidates[k] = cand
        \/ \E k \in 1..Len(st.pcs[p][g].chain) :
              /\ st.pcs[p][g].chain[k].kind = "ic.add"
              /\ st.pcs[p][g].chain[k].arg = <<cand>>

\* the candidate of p cannot be applied on arrival: there is no session for p,
\* or its remote description is not set yet
Early(st, p) ==
    \/ st.peerConnections[p] = 0
    \/ remoteDescription(PCof(st, CurRef(st, p))) = NoDesc

\* C26: an `ice-candidate` of P that cannot be applied on arrival (no session
\* for P yet, or no remote description yet) is retained, in main.js and in part_000.
C26_EarlyCandidateRetained ==
    [][\A p \in Peers :
          (variant \in {"part_000", "main"} /\ CandidateFrom(p) /\ Early(cl[Self], p))
          => Retains(cl'[Self], p, <<p, 1, env'.cand[p]>>)]_vars

\* a message of p is dispatched, or a timer callback for p starts
HandlerStartsFor(p) ==
    \/ OfferFrom(p)
    \/ AnswerFrom(p)
    \/ CandidateFrom(p)
    \/ /\ OfferTimer(Self) \/ DrainTimer(Self)
       /\ Head(cl[Self].timers).ref[1] = p

\* C27: in part_000, when a message or timer callback for P starts on P's
\* session, no earlier handler for P is still suspended at an await on it.
C27_HandlersSerialised ==
    [][\A p \in Peers :
          (variant = "part_000" /\ HandlerStartsFor(p) /\ HasCur(Self, p))
          => CurPC(Self, p).chain = <<>>]_vars

\* connection g of p was closed and discarded by handleUserLeft
Discarded(st, p, g) == IsClosed(st.pcs[p][g]) /\ st.peerConnections[p] # g

\* a handler for p resumes on connection g, or a drain timer for it fires
ResumesOn(p, g) ==
    \/ NegotiationAt(p, g)
    \/ DrainAt(Self, p, g)
    \/ /\ DrainTimer(Self)
       /\ Head(cl[Self].timers).ref = <<p, g>>

\* what the transport holds for a connection: its state, descriptions and the
\* candidates applied
Applied(pc) ==
    <<pc.signalingState, pc.curLocal, pc.pendLocal, pc.curRemote, pc.pendRemote, pc.added>>

\* C28: in part_000, when createOffer, handleOffer, handleAnswer, handleIceCandidate
\* or a drain timer resumes on a connection that handleUserLeft has closed and
\* discarded, no description or candidate is applied to any connection, nothing
\* is sent and peerConnections is unchanged.
C28_ResumeAfterLeaveIsNoOp ==
    [][\A p \in Peers : \A g \in 1..Len(cl[Self].pcs[p]) :
          (variant = "part_000" /\ ResumesOn(p, g) /\ Discarded(cl[Self], p, g))
          => /\ \A q \in Ids : \A h \in 1..Len(cl[Self].pcs[q]) :
                   Applied(cl'[Self].pcs[q][h]) = Applied(cl[Self].pcs[q][h])
             /\ \A q \in Ids : Len(cl'[Self].pcs[q]) = Len(cl[Self].pcs[q])
             /\ cl'[Self].sent = cl[Self].sent
             /\ cl'[Self].peerConnections = cl[Self].peerConnections]_vars

\* handlers have resumed on a discarded connection and nothing is pending on it
C28_Witness ==
    /\ variant = "part_000"
    /\ {"createOffer", "handleOffer"} \cap cl[Self].logged # {}
    /\ \E p \in Peers :
          /\ Len(cl[Self].pcs[p]) = 1
          /\ Discarded(cl[Self], p, 1)
          /\ cl[Self].pcs[p][1].chain = <<>>

\* C29: in part_000 every id with an entry in peerConnections is in the roster:
\* from `user-left` until the next `user-joined` of a participant there is no
\* session for it.
C29_SessionsAreInRoster ==
    \A c \in Clients : \A p \in Ids :
        (Live(c) /\ HasCur(c, p)) => p \in cl[c].remoteParticipants

\* C30: in part_000 an `offer` of P applied to a session that is connected (both
\* descriptions set, nothing pending) sets no new remote description and
\* sends no answer.
C30_LateOfferIgnored ==
    [][\A p \in Peers : \A g \in 1..Len(cl[Self].pcs[p]) :
          (/\ variant = "part_000"
           /\ HandleOfferAt(Self, p, g)
           /\ IsConnected(cl[Self].pcs[p][g]))
          => /\ Applied(cl'[Self].pcs[p][g]) = Applied(cl[Self].pcs[p][g])
             /\ cl'[Self].sent = cl[Self].sent]_vars

\* the connections of participant p that are not closed
OpenConnections(st, p) == {g \in 1..Len(st.pcs[p]) : ~IsClosed(st.pcs[p][g])}

\* C31: in mai.js at most one peer connection that is not closed exists per
\* remote participant id at any time.
C31_OneOpenConnectionPerPeer ==
    \A p \in Peers : Cardinality(OpenConnections(cl[Self], p)) <= 1

\* C32: in mai.js a peer connection for which an offer or an answer has been
\* created and set has the local tracks attached.
C32_TracksBeforeNegotiation ==
    \A p \in Peers : \A g \in 1..Len(cl[Self].pcs[p]) :
        localDescription(cl[Self].pcs[p][g]) # NoDesc
        => cl[Self].pcs[p][g].videoTrack # NoTrack

\* C33: in part_000, once leaveMeeting has run and until the page is gone, no
\* step leaves a peer connection open and no step sends a signalling message.
C33_NothingAfterLeave ==
    [][(Live(Self) /\ cl[Self].wsState = "closed" /\ ~cl'[Self].unloaded)
       => /\ \A p \in Ids : OpenConnections(cl'[Self], p) = {}
          /\ cl'[Self].sent = cl[Self].sent]_vars

\* C34: in part_000 the displayed participant list has an entry for roll number
\* k exactly when self or a participant in remoteParticipants has roll number k.
C34_ListMatchesRoster ==
    (Live(Self) /\ cl[Self].participantId # 0)
    => cl[Self].listed =
          {RollOf(q) : q \in cl[Self].remoteParticipants \cup {cl[Self].participantId}}

====
